---- MODULE Spec2Model ----
(***************************************************************************)
(* Model of the ACME Products MCP service (src/mcp-server/main.py): the    *)
(* tool handlers that create accounts and orders, amend and finalize       *)
(* orders, and update the product catalog, all working on one shared       *)
(* sqlite3 connection.                                                     *)
(*                                                                         *)
(* Every handler is an `async def` whose body holds no await, so the event *)
(* loop runs it from its first line to its return or raise without         *)
(* interleaving: one action per handler.                                   *)
(*                                                                         *)
(* Money: the source keeps prices and totals as floats.  The model keeps   *)
(* them as integers counting units of 0.00001 (PriceScale units make 1.0), *)
(* so 10.00 is 1000000 and 9.999 is 999900.                                *)
(***************************************************************************)
EXTENDS Integers, Sequences, FiniteSets, TLC

VARIABLES
    conn,       \* the tables as the shared connection sees them (uncommitted writes included)
    committed,  \* the tables as last committed
    response,   \* the last tool call: its name, the order it names, and what it returned or raised
    suspended   \* the create_order calls suspended between their INSERTs, if the body can suspend

vars == <<conn, committed, response, suspended>>

-----------------------------------------------------------------------------
(* Bounds and program constants *)

MaxOrders == 2

MaxProductIds == 5

PriceScale == 100000

-----------------------------------------------------------------------------
(* The user-info header and _get_user_info *)

Part(k, v) == [eq |-> TRUE, key |-> k, value |-> v]

JunkPart == [eq |-> FALSE, key |-> "", value |-> ""]

NoHeader == <<>>

HdrA == <<Part("name", "A"), Part("email", "a@x.com")>>

HdrNoEmail == <<JunkPart, Part("name", "A")>>

HdrNoName == <<Part("email", "c@x.com")>>

HdrEmptyEmail == <<Part("name", "A"), Part("email", "")>>

Headers == {NoHeader, HdrA, HdrNoEmail, HdrNoName, HdrEmptyEmail}

MockUserInfo == [name |-> "Bo Jackson", email |-> "bo@bojackson.com"]

EmptyDict == [k \in {} |-> ""]

RECURSIVE ParseParts(_, _)
ParseParts(parts, user_info) ==
    IF parts = <<>> THEN user_info
    ELSE LET part == Head(parts) IN
         ParseParts(Tail(parts),
                    IF part.eq
                    THEN [k \in DOMAIN user_info \cup {part.key} |->
                             IF k = part.key THEN part.value ELSE user_info[k]]
                    ELSE user_info)

get_user_info(user_info_header) ==
    IF user_info_header = NoHeader THEN MockUserInfo
    ELSE ParseParts(user_info_header, EmptyDict)

\* `not user_info.get(k)`: the key is missing or its value is empty
Falsy(user_info, k) == k \notin DOMAIN user_info \/ user_info[k] = ""

HasKey(user_info, k) == k \in DOMAIN user_info

-----------------------------------------------------------------------------
(* Errors *)

OK == ""

ErrMissingNameEmail == "user-info header must include name and email"

ErrDuplicateAccount == "account with that email already exists"

ErrNotRegistered == "account not registered"

ErrInvalidList == "invalid products list. Must be an array of 1 to 5 product IDs."

ErrInvalidProductIds == "one or more invalid product ids"

ErrInvalidOrder == "invalid orderId"

ErrFinalized == "cannot amend a finalized order"

ErrQuantity == "Quantity must be a non-negative integer."

ErrPricePositive == "Price must be a positive number."

ErrPriceDecimals == "Price can have at most 2 decimal digits."

ErrProductNotFound == "Product with ID not found."

KeyErrorEmail == "KeyError: 'email'"

NameErrorTotal == "NameError: name 'total_amount' is not defined"

\* dict(None), raised by ProductRecord(**dict(retrieved_row)) when no row was fetched
TypeErrorNone == "TypeError: 'NoneType' object is not iterable"

-----------------------------------------------------------------------------
(* Tables and queries *)

SeedProducts ==
    << [id |-> 1, price |-> 10 * PriceScale, available |-> 5],
       [id |-> 2, price |-> 5 * PriceScale,  available |-> 7] >>

EmptyStore ==
    [accounts |-> <<>>, products |-> SeedProducts, orders |-> <<>>, order_items |-> <<>>]

Rows(table) == {table[i] : i \in DOMAIN table}

\* SELECT id FROM accounts WHERE email = ?  (the ids, at most one by the UNIQUE email)
AccountIds(db, email) == {a.id : a \in {r \in Rows(db.accounts) : r.email = email}}

\* SELECT o.* FROM orders o JOIN accounts a ON o.account_id = a.id WHERE o.id = ? AND a.email = ?
OwnedOrders(db, order_id, email) ==
    LET Test(o) == o.id = order_id /\ o.account_id \in AccountIds(db, email)
    IN  SelectSeq(db.orders, Test)

\* OrdersOf without the WHERE clause
OrdersOf_mut(db, account_id) == db.orders

\* SELECT * FROM orders WHERE account_id = ?
OrdersOf(db, account_id) ==
    LET Test(o) == o.account_id = account_id IN SelectSeq(db.orders, Test)

\* SELECT oi.*, p.name ... FROM order_items oi JOIN products p ON oi.product_id = p.id WHERE oi.order_id = ?
ItemsOf(db, order_id) ==
    LET Test(oi) == oi.order_id = order_id /\ \E p \in Rows(db.products) : p.id = oi.product_id
    IN  SelectSeq(db.order_items, Test)

\* SELECT * FROM products WHERE id = ?
ProductsById(db, id) ==
    LET Test(p) == p.id = id IN SelectSeq(db.products, Test)

\* SELECT id, price FROM products WHERE id IN (...): one row per matching product
ProductRows(db, product_ids) ==
    LET Test(p) == \E i \in DOMAIN product_ids : product_ids[i] = p.id
    IN  SelectSeq(db.products, Test)

PriceOf(db, id) == (CHOOSE p \in Rows(db.products) : p.id = id).price

RECURSIVE SumPrices(_, _)
SumPrices(db, product_ids) ==
    IF product_ids = <<>> THEN 0
    ELSE PriceOf(db, Head(product_ids)) + SumPrices(db, Tail(product_ids))

-----------------------------------------------------------------------------
(* The call record *)

NoCall ==
    [op |-> "none", order_id |-> 0, err |-> OK, not_found |-> <<>>,
     order |-> <<>>, orders |-> <<>>, items |-> <<>>, product |-> <<>>]

Init ==
    /\ conn = EmptyStore
    /\ committed = EmptyStore
    /\ response = NoCall
    /\ suspended = <<>>

-----------------------------------------------------------------------------
(* Inputs *)

ProductIds == {1, 2, 3}

ProductIdLists ==
    { <<>>, <<1>>, <<1, 2>>, <<1, 1>>, <<3>>, <<1, 3>>,
      <<2, 1, 2, 1, 2>>, <<1, 2, 1, 2, 1, 2>> }

OrderIds == 1..(MaxOrders + 1)

Quantities == {0, 3}

Availabilities == {-1, 5}

Prices == {0, -5 * PriceScale, 999900, 10 * PriceScale}

\* the catalog's own inputs: 0, -5.00, 9.999, 9.99 and 0.00001; -1, 0 and 5
CatalogPrices == {0, -5 * PriceScale, 999900, 999000, 1}

CatalogAvailabilities == {-1, 0, 5}

-----------------------------------------------------------------------------
(* What a handler does: the tables it leaves on the connection, whether it
   reached conn.commit(), and what it returned or raised *)

\* the handler returns or raises having executed no write
Return(db, r) == [db |-> db, commit |-> FALSE, response |-> r]

\* the handler executed its writes, giving db, and called conn.commit()
Commit(db, r) == [db |-> db, commit |-> TRUE, response |-> r]

\* the handler executed its writes, giving db, and raised before conn.commit()
Abandon(db, r) == [db |-> db, commit |-> FALSE, response |-> r]

-----------------------------------------------------------------------------
(* create_account *)

\* the UNIQUE constraint on accounts.email refuses the INSERT (sqlite3.IntegrityError)
UniqueEmailViolated(db, email) == AccountIds(db, email) # {}

\* InsertAccount writing the new row in place of the table's rows
InsertAccount_mut(db, name, email) ==
    [db EXCEPT !.accounts = <<[id |-> 1, name |-> name, email |-> email]>>]

InsertAccount(db, name, email) ==
    [db EXCEPT !.accounts =
        Append(@, [id |-> Len(@) + 1, name |-> name, email |-> email])]

create_account(db, user_info_header) ==
    LET user_info == get_user_info(user_info_header)
        call == [NoCall EXCEPT !.op = "create_account"]
    IN  IF Falsy(user_info, "name") \/ Falsy(user_info, "email")
        THEN Return(db, [call EXCEPT !.err = ErrMissingNameEmail])
        ELSE IF UniqueEmailViolated(db, user_info["email"])
        THEN Abandon(db, [call EXCEPT !.err = ErrDuplicateAccount])
        ELSE Commit(InsertAccount(db, user_info["name"], user_info["email"]), call)

-----------------------------------------------------------------------------
(* create_order *)

\* InvalidList with the upper limit off by one
InvalidList_mut(product_ids) ==
    Len(product_ids) = 0 \/ Len(product_ids) > MaxProductIds + 1

\* not product_ids or len(product_ids) == 0 or len(product_ids) > 5
InvalidList(product_ids) == Len(product_ids) = 0 \/ Len(product_ids) > MaxProductIds

\* ProductsMismatch comparing the rows found with the distinct ids listed
ProductsMismatch_mut(db, product_ids) ==
    Len(ProductRows(db, product_ids))
        # Cardinality({product_ids[i] : i \in DOMAIN product_ids})

\* len(product_rows) != len(product_ids)
ProductsMismatch(db, product_ids) == Len(ProductRows(db, product_ids)) # Len(product_ids)

NotFound(db, product_ids) ==
    LET found_ids == {row.id : row \in Rows(ProductRows(db, product_ids))}
        Test(pid) == pid \notin found_ids
    IN  SelectSeq(product_ids, Test)

\* TotalAmount charging the first product's price for every listed id
TotalAmount_mut(db, product_ids) == Len(product_ids) * PriceOf(db, Head(product_ids))

TotalAmount(db, product_ids) == SumPrices(db, product_ids)

\* NewOrder storing an account id one above the id of the caller's account
NewOrder_mut(db, account_id, total_amount) ==
    [id |-> Len(db.orders) + 1, account_id |-> account_id + 1,
     status |-> "pending", total_amount |-> total_amount]

NewOrder(db, account_id, total_amount) ==
    [id |-> Len(db.orders) + 1, account_id |-> account_id,
     status |-> "pending", total_amount |-> total_amount]

\* INSERT INTO orders (account_id, order_date, status, total_amount) VALUES (?, ?, ?, ?)
InsertOrderRow(db, order) == [db EXCEPT !.orders = Append(@, order)]

\* for each product id: INSERT INTO order_items (order_id, product_id, quantity) VALUES (?, ?, 1)
InsertItems(db, order, product_ids) ==
    [db EXCEPT
        !.order_items = @ \o
            [i \in 1..Len(product_ids) |->
                [id |-> Len(db.order_items) + i, order_id |-> order.id,
                 product_id |-> product_ids[i], quantity |-> 1]]]

InsertOrder(db, order, product_ids) ==
    InsertItems(InsertOrderRow(db, order), order, product_ids)

\* Suspends with an await between the INSERT of the order and the INSERTs of its items
Suspends_mut == TRUE

\* Whether create_order hands control back to the event loop between its first
\* write and conn.commit(): its body holds no await, so it does not
Suspends == FALSE

create_order(db, product_ids, user_info_header) ==
    LET user_info == get_user_info(user_info_header)
        call == [NoCall EXCEPT !.op = "create_order"]
    IN  IF ~HasKey(user_info, "email")
        THEN Return(db, [call EXCEPT !.err = KeyErrorEmail])
        ELSE IF AccountIds(db, user_info["email"]) = {}
        THEN Return(db, [call EXCEPT !.err = ErrNotRegistered])
        ELSE IF InvalidList(product_ids)
        THEN Return(db, [call EXCEPT !.err = ErrInvalidList])
        ELSE IF ProductsMismatch(db, product_ids)
        THEN Return(db, [call EXCEPT !.err = ErrInvalidProductIds,
                                     !.not_found = NotFound(db, product_ids)])
        ELSE LET account_id == CHOOSE id \in AccountIds(db, user_info["email"]) : TRUE
                 order == NewOrder(db, account_id, TotalAmount(db, product_ids))
             IN  Commit(InsertOrder(db, order, product_ids),
                        [call EXCEPT !.order = <<order>>])

-----------------------------------------------------------------------------
(* list_my_orders *)

list_my_orders(db, user_info_header) ==
    LET user_info == get_user_info(user_info_header)
        call == [NoCall EXCEPT !.op = "list_my_orders"]
    IN  IF ~HasKey(user_info, "email")
        THEN Return(db, [call EXCEPT !.err = KeyErrorEmail])
        ELSE IF AccountIds(db, user_info["email"]) = {}
        THEN Return(db, [call EXCEPT !.err = ErrNotRegistered])
        ELSE LET account_id == CHOOSE id \in AccountIds(db, user_info["email"]) : TRUE
             IN  Return(db, [call EXCEPT !.orders = OrdersOf(db, account_id)])

-----------------------------------------------------------------------------
(* get_order_details *)

get_order_details(db, order_id, details, user_info_header) ==
    LET user_info == get_user_info(user_info_header)
        call == [NoCall EXCEPT !.op = "get_order_details", !.order_id = order_id]
    IN  IF ~HasKey(user_info, "email")
        THEN Return(db, [call EXCEPT !.err = KeyErrorEmail])
        ELSE LET order == OwnedOrders(db, order_id, user_info["email"])
             IN  IF order = <<>>
                 THEN Return(db, [call EXCEPT !.err = ErrInvalidOrder])
                 ELSE Return(db, [call EXCEPT !.order = <<Head(order)>>,
                                              !.items = IF details
                                                        THEN ItemsOf(db, order_id)
                                                        ELSE <<>>])

-----------------------------------------------------------------------------
(* amend_order *)

\* NotPending that takes only a canceled order as finalized
NotPending_mut(order) == order.status = "canceled"

\* order["status"] != "pending"
NotPending(order) == order.status # "pending"

amend_order(db, order_id, product_id, qty, user_info_header) ==
    LET user_info == get_user_info(user_info_header)
        call == [NoCall EXCEPT !.op = "amend_order", !.order_id = order_id]
    IN  IF ~HasKey(user_info, "email")
        THEN Return(db, [call EXCEPT !.err = KeyErrorEmail])
        ELSE LET order == OwnedOrders(db, order_id, user_info["email"])
             IN  IF order = <<>>
                 THEN Return(db, [call EXCEPT !.err = ErrInvalidOrder])
                 ELSE IF NotPending(Head(order))
                 THEN Return(db, [call EXCEPT !.err = ErrFinalized])
                 \* the upsert and the recomputation are not written; the UPDATE's
                 \* argument total_amount is an unbound name
                 ELSE Return(db, [call EXCEPT !.err = NameErrorTotal])

-----------------------------------------------------------------------------
(* _finalize_order, submit_order, cancel_order *)

\* FinalizeMatches without the account_id condition
FinalizeMatches_mut(db, o, order_id, email) == o.id = order_id

\* WHERE id = ? AND account_id = (SELECT id FROM accounts WHERE email = ?)
FinalizeMatches(db, o, order_id, email) ==
    o.id = order_id /\ o.account_id \in AccountIds(db, email)

\* UpdateStatus matching every order of the caller's account, whatever its id
UpdateStatus_mut(db, status, order_id, email) ==
    [db EXCEPT !.orders =
        [i \in DOMAIN @ |->
            IF @[i].account_id \in AccountIds(db, email)
            THEN [@[i] EXCEPT !.status = status] ELSE @[i]]]

\* UPDATE orders SET status = ? WHERE ...
UpdateStatus(db, status, order_id, email) ==
    [db EXCEPT !.orders =
        [i \in DOMAIN @ |->
            IF FinalizeMatches(db, @[i], order_id, email)
            THEN [@[i] EXCEPT !.status = status] ELSE @[i]]]

\* RowCount counting only the matching rows that were pending
RowCount_mut(db, order_id, email) ==
    Cardinality({i \in DOMAIN db.orders :
                    /\ FinalizeMatches(db, db.orders[i], order_id, email)
                    /\ db.orders[i].status = "pending"})

\* cursor.rowcount after the UPDATE
RowCount(db, order_id, email) ==
    Cardinality({i \in DOMAIN db.orders : FinalizeMatches(db, db.orders[i], order_id, email)})

finalize_order(db, op, order_id, status, user_info_header) ==
    LET user_info == get_user_info(user_info_header)
        call == [NoCall EXCEPT !.op = op, !.order_id = order_id]
    IN  IF ~HasKey(user_info, "email")
        THEN Return(db, [call EXCEPT !.err = KeyErrorEmail])
        ELSE IF RowCount(db, order_id, user_info["email"]) = 0
        THEN Abandon(UpdateStatus(db, status, order_id, user_info["email"]),
                     [call EXCEPT !.err = ErrInvalidOrder])
        ELSE Commit(UpdateStatus(db, status, order_id, user_info["email"]), call)

submit_order(db, order_id, user_info_header) ==
    finalize_order(db, "submit_order", order_id, "submitted", user_info_header)

cancel_order(db, order_id, user_info_header) ==
    finalize_order(db, "cancel_order", order_id, "canceled", user_info_header)

-----------------------------------------------------------------------------
(* update_product_quantity, update_product_price *)

UpdateAvailable(db, id, quantity) ==
    [db EXCEPT !.products =
        [i \in DOMAIN @ |-> IF @[i].id = id THEN [@[i] EXCEPT !.available = quantity]
                            ELSE @[i]]]

\* UpdatePrice that also re-prices the stored orders listing the product
UpdatePrice_mut(db, id, price) ==
    [db EXCEPT
        !.products =
            [i \in DOMAIN @ |-> IF @[i].id = id THEN [@[i] EXCEPT !.price = price]
                                ELSE @[i]],
        !.orders =
            [i \in DOMAIN @ |->
                IF \E oi \in Rows(ItemsOf(db, @[i].id)) : oi.product_id = id
                THEN [@[i] EXCEPT !.total_amount = @ - PriceOf(db, id) + price]
                ELSE @[i]]]

UpdatePrice(db, id, price) ==
    [db EXCEPT !.products =
        [i \in DOMAIN @ |-> IF @[i].id = id THEN [@[i] EXCEPT !.price = price]
                            ELSE @[i]]]

update_product_quantity(db, id, quantity) ==
    LET call == [NoCall EXCEPT !.op = "update_product_quantity"]
    IN  IF quantity < 0
        THEN Return(db, [call EXCEPT !.err = ErrQuantity])
        ELSE IF ProductsById(db, id) = <<>>
        THEN Abandon(UpdateAvailable(db, id, quantity),
                     [call EXCEPT !.err = ErrProductNotFound])
        ELSE LET db2 == UpdateAvailable(db, id, quantity)
             IN  Commit(db2, [call EXCEPT !.product = ProductsById(db2, id)])

\* "." in str(price): a positive float below 0.0001 prints in exponent form, "1e-05"
HasPoint(price) == price >= PriceScale \div 10000

\* len(str(price).split(".")[1]) > 2
FractionOverTwo(price) == price % (PriceScale \div 100) # 0

update_product_price(db, id, price) ==
    LET call == [NoCall EXCEPT !.op = "update_product_price"]
    IN  IF price <= 0
        THEN Return(db, [call EXCEPT !.err = ErrPricePositive])
        ELSE IF HasPoint(price) /\ FractionOverTwo(price)
        THEN Return(db, [call EXCEPT !.err = ErrPriceDecimals])
        ELSE IF ProductsById(db, id) = <<>>
        THEN Abandon(UpdatePrice(db, id, price),
                     [call EXCEPT !.err = ErrProductNotFound])
        ELSE LET db2 == UpdatePrice(db, id, price)
             IN  Commit(db2, [call EXCEPT !.product = ProductsById(db2, id)])

-----------------------------------------------------------------------------
(* retrieve_product_details *)

\* conn.commit() comes before the row is converted, so it runs on both paths
retrieve_product_details(db, id) ==
    LET call == [NoCall EXCEPT !.op = "retrieve_product_details"]
        retrieved_row == ProductsById(db, id)
    IN  IF retrieved_row = <<>>
        THEN Commit(db, [call EXCEPT !.err = TypeErrorNone])
        ELSE Commit(db, [call EXCEPT !.product = retrieved_row])

-----------------------------------------------------------------------------
(* The service *)

\* One tool call, run from its first line to its return or raise on the shared
\* connection: conn.commit() commits whatever the connection holds
Handle(result) ==
    /\ conn' = result.db
    /\ committed' = IF result.commit THEN result.db ELSE committed
    /\ response' = result.response
    /\ suspended' = suspended

\* The transport sends the result of the call just handled; the next call is then served
Respond ==
    /\ response # NoCall
    /\ response' = NoCall
    /\ UNCHANGED <<conn, committed, suspended>>

Idle == response = NoCall

CreateAccount == Idle /\ \E h \in Headers : Handle(create_account(conn, h))

\* create_order runs: a new call from its first line, to its return or raise or,
\* if the body can suspend, to the point after the INSERT of the order; or a
\* suspended call from that point to its return, on the connection as it then is
CreateOrder ==
    IF suspended # <<>>
    THEN LET k == Head(suspended)
         IN  /\ conn' = InsertItems(conn, k.order, k.product_ids)
             /\ committed' = conn'
             /\ response' = k.response
             /\ suspended' = Tail(suspended)
    ELSE /\ Idle
         /\ \E h \in Headers, ids \in ProductIdLists :
               LET result == create_order(conn, ids, h)
               IN  /\ Len(result.db.orders) <= MaxOrders
                   /\ IF result.commit /\ Suspends
                      THEN /\ conn' = InsertOrderRow(conn, result.response.order[1])
                           /\ suspended' = <<[order |-> result.response.order[1],
                                              product_ids |-> ids,
                                              response |-> result.response]>>
                           /\ UNCHANGED <<committed, response>>
                      ELSE Handle(result)

ListMyOrders == Idle /\ \E h \in Headers : Handle(list_my_orders(conn, h))

GetOrderDetails ==
    Idle /\ \E h \in Headers, o \in OrderIds, d \in BOOLEAN :
                Handle(get_order_details(conn, o, d, h))

AmendOrder ==
    Idle /\ \E h \in Headers, o \in OrderIds, p \in ProductIds, q \in Quantities :
                Handle(amend_order(conn, o, p, q, h))

SubmitOrder == Idle /\ \E h \in Headers, o \in OrderIds : Handle(submit_order(conn, o, h))

CancelOrder == Idle /\ \E h \in Headers, o \in OrderIds : Handle(cancel_order(conn, o, h))

UpdateProductQuantity ==
    Idle /\ \E id \in ProductIds, q \in Availabilities :
                Handle(update_product_quantity(conn, id, q))

UpdateProductPrice ==
    Idle /\ \E id \in ProductIds, p \in Prices : Handle(update_product_price(conn, id, p))

RetrieveProductDetails ==
    Idle /\ \E id \in ProductIds : Handle(retrieve_product_details(conn, id))

Next ==
    \/ CreateAccount
    \/ CreateOrder
    \/ ListMyOrders
    \/ GetOrderDetails
    \/ AmendOrder
    \/ SubmitOrder
    \/ CancelOrder
    \/ UpdateProductQuantity
    \/ UpdateProductPrice
    \/ RetrieveProductDetails
    \/ Respond

Spec == Init /\ [][Next]_vars

\* The catalog tools alone, over the wider catalog inputs
CatalogUpdateQuantity ==
    Idle /\ \E id \in ProductIds, q \in CatalogAvailabilities :
                Handle(update_product_quantity(conn, id, q))

CatalogUpdatePrice ==
    Idle /\ \E id \in ProductIds, p \in CatalogPrices :
                Handle(update_product_price(conn, id, p))

CatalogNext ==
    \/ CatalogUpdateQuantity
    \/ CatalogUpdatePrice
    \/ RetrieveProductDetails
    \/ Respond

SpecCatalog == Init /\ [][CatalogNext]_vars

-----------------------------------------------------------------------------
(* Vocabulary of the properties.  A property of a handler is stated of the
   states in which the service takes a call (Idle), for every input. *)

HasEmail(h) == HasKey(get_user_info(h), "email")

EmailOf(h) == get_user_info(h)["email"]

\* the caller's email is the email of an account
Registered(db, h) ==
    HasEmail(h) /\ \E a \in Rows(db.accounts) : a.email = EmailOf(h)

OrderExists(db, o) == \E ord \in Rows(db.orders) : ord.id = o

\* order o exists and belongs to the account of the caller
Owns(db, h, o) ==
    /\ HasEmail(h)
    /\ \E ord \in Rows(db.orders), a \in Rows(db.accounts) :
          ord.id = o /\ a.id = ord.account_id /\ a.email = EmailOf(h)

OrderById(db, o) == CHOOSE ord \in Rows(db.orders) : ord.id = o

\* the rows of order_items of order o
LineItems(db, o) ==
    LET Test(oi) == oi.order_id = o IN SelectSeq(db.order_items, Test)

RECURSIVE LineTotal(_, _)
LineTotal(db, items) ==
    IF items = <<>> THEN 0
    ELSE Head(items).quantity * PriceOf(db, Head(items).product_id)
         + LineTotal(db, Tail(items))

\* the stored total of order o is the sum of current price times quantity over its items
TotalMatches(db, o) == OrderById(db, o).total_amount = LineTotal(db, LineItems(db, o))

AllExist(db, product_ids) ==
    \A i \in DOMAIN product_ids : \E p \in Rows(db.products) : p.id = product_ids[i]

\* the handler left the connection as it found it and committed nothing
Untouched(db, result) == result.db = db /\ ~result.commit

WriteOps ==
    {"create_account", "create_order", "amend_order", "submit_order", "cancel_order",
     "update_product_quantity", "update_product_price"}

-----------------------------------------------------------------------------
(* C1: once an order's status is submitted or canceled, no later operation
   changes it; the only transitions are pending->submitted and
   pending->canceled. *)
C1_StatusMonotonic ==
    [][\A i \in DOMAIN committed.orders :
          committed.orders[i].status # "pending"
          => committed'.orders[i].status = committed.orders[i].status]_vars

(* C2: amend_order by the owner on an order that is not pending fails with
   "cannot amend a finalized order" and leaves the whole store as it was. *)
C2_AmendFinalizedRejected ==
    Idle =>
        \A h \in Headers, o \in OrderIds, p \in ProductIds, q \in Quantities :
            (Owns(conn, h, o) /\ OrderById(conn, o).status # "pending")
            => LET result == amend_order(conn, o, p, q, h)
               IN  /\ result.response.err = ErrFinalized
                   /\ Untouched(conn, result)

C2_Witness ==
    /\ response.op = "amend_order"
    /\ response.err = ErrFinalized
    /\ OrderExists(committed, response.order_id)
    /\ OrderById(committed, response.order_id).status = "submitted"
    /\ LineItems(committed, response.order_id) # <<>>

(* C3: amend_order by the owner on a pending order with a positive quantity
   succeeds and upserts the line item: afterwards the order has exactly one
   item for the product and its quantity is the given one; the other items
   are as before. *)
C3_AmendUpserts ==
    Idle =>
        \A h \in Headers, o \in OrderIds, p \in ProductIds, q \in Quantities :
            (Owns(conn, h, o) /\ OrderById(conn, o).status = "pending" /\ q > 0)
            => LET result == amend_order(conn, o, p, q, h)
                   Test(oi) == oi.product_id = p
                   Other(oi) == oi.product_id # p
                   mine == SelectSeq(LineItems(result.db, o), Test)
               IN  /\ result.response.err = OK
                   /\ result.commit
                   /\ Len(mine) = 1
                   /\ mine[1].quantity = q
                   /\ SelectSeq(LineItems(result.db, o), Other)
                        = SelectSeq(LineItems(conn, o), Other)

(* C5 as stated: in every reachable state every order's total_amount equals
   the sum of unit price times quantity over its current line items. *)
C5_StandingTotal ==
    \A ord \in Rows(committed.orders) : TotalMatches(committed, ord.id)

\* the price of every product on order o is the same in db2 as in db1
SamePrices(db1, db2, o) ==
    \A oi \in Rows(LineItems(db1, o)) : PriceOf(db2, oi.product_id) = PriceOf(db1, oi.product_id)

(* C5 as amended: an order is created with total_amount equal to the sum of
   price times quantity over its line items, and every operation that does
   not change the price of a product on the order keeps that equality. *)
C5_TotalUntilRepriced ==
    [][committed' # committed =>
       \A i \in DOMAIN committed'.orders :
          LET o == committed'.orders[i].id IN
          IF i \notin DOMAIN committed.orders
          THEN TotalMatches(committed', o)
          ELSE (TotalMatches(committed, o) /\ SamePrices(committed, committed', o))
               => TotalMatches(committed', o)]_vars

C5_Witness ==
    /\ response.op = "update_product_price"
    /\ response.err = OK
    /\ \E ord \in Rows(committed.orders) :
          /\ Len(LineItems(committed, ord.id)) = 2
          /\ ord.status = "submitted"
          /\ TotalMatches(committed, ord.id)

(* C6: for every list of 1 to 5 existing product ids, repeats allowed, given
   by a registered caller, create_order returns and stores an order whose
   total_amount is the sum of the current prices of the listed ids, one per
   occurrence. *)
C6_CreateOrderTotal ==
    Idle =>
        \A h \in Headers, ids \in ProductIdLists :
            (Registered(conn, h) /\ Len(ids) \in 1..MaxProductIds /\ AllExist(conn, ids))
            => LET result == create_order(conn, ids, h)
               IN  /\ result.response.err = OK
                   /\ result.commit
                   /\ Len(result.response.order) = 1
                   /\ result.response.order[1].total_amount = SumPrices(conn, ids)
                   /\ result.response.order[1] \in Rows(result.db.orders)

(* C7: create_order accepts a list with duplicate ids of existing products:
   the order is created pending with one item row of quantity 1 per listed
   occurrence, and the invalid-product-ids error is raised only when some
   requested id is absent from the catalog. *)
C7_DuplicatesAccepted ==
    Idle =>
        \A h \in Headers, ids \in ProductIdLists :
            (Registered(conn, h) /\ Len(ids) \in 1..MaxProductIds)
            => LET result == create_order(conn, ids, h)
                   n == Len(result.db.orders)
                   items == LineItems(result.db, n)
               IN  /\ result.response.err = ErrInvalidProductIds => ~AllExist(conn, ids)
                   /\ AllExist(conn, ids) =>
                         /\ result.commit
                         /\ n = Len(conn.orders) + 1
                         /\ result.db.orders[n].status = "pending"
                         /\ Len(items) = Len(ids)
                         /\ \A i \in DOMAIN ids :
                               items[i].product_id = ids[i] /\ items[i].quantity = 1

(* C8 as stated: create_order with an empty list or more than 5 ids fails
   with the invalid-list error for every caller, registered or not, and
   inserts no order and no item. *)
C8_InvalidListAlways ==
    Idle =>
        \A h \in Headers, ids \in ProductIdLists :
            (HasEmail(h) /\ (Len(ids) = 0 \/ Len(ids) > MaxProductIds))
            => LET result == create_order(conn, ids, h)
               IN  /\ result.response.err = ErrInvalidList
                   /\ result.db.orders = conn.orders
                   /\ result.db.order_items = conn.order_items

(* C8 as amended: create_order with an empty list or more than 5 ids fails
   with the invalid-list error for every registered caller, and with
   "account not registered" for a caller whose email has no account; in both
   cases the store is unchanged. *)
C8_InvalidListRegistered ==
    Idle =>
        \A h \in Headers, ids \in ProductIdLists :
            (HasEmail(h) /\ (Len(ids) = 0 \/ Len(ids) > MaxProductIds))
            => LET result == create_order(conn, ids, h)
               IN  /\ Registered(conn, h) => result.response.err = ErrInvalidList
                   /\ ~Registered(conn, h) => result.response.err = ErrNotRegistered
                   /\ Untouched(conn, result)

C8_Witness ==
    /\ response.op = "create_order"
    /\ response.err = ErrInvalidList
    /\ committed.orders # <<>>

(* C9: a write operation that fails leaves the committed store as it was, and
   after every operation the connection holds no uncommitted write that a
   later commit could publish. *)
C9_AllOrNothing ==
    [][/\ (Idle /\ response'.op \in WriteOps /\ response'.err # OK)
             => committed' = committed
       /\ conn' = committed']_vars

C9_Witness ==
    /\ response.op \in {"submit_order", "cancel_order"}
    /\ response.err = ErrInvalidOrder
    /\ OrderExists(committed, response.order_id)
    /\ conn = committed

(* C10: submit_order, cancel_order, amend_order and get_order_details called
   with an order id the caller does not own give the same outcome whether the
   id exists under another account or does not exist: "invalid orderId",
   nothing returned, store unchanged. *)
C10_NoExistenceLeak ==
    Idle =>
        \A h \in Headers, o \in OrderIds :
            (HasEmail(h) /\ ~Owns(conn, h, o))
            => LET Refused(op, result) ==
                      /\ result.response = [NoCall EXCEPT !.op = op, !.order_id = o,
                                                          !.err = ErrInvalidOrder]
                      /\ Untouched(conn, result)
               IN  /\ Refused("submit_order", submit_order(conn, o, h))
                   /\ Refused("cancel_order", cancel_order(conn, o, h))
                   /\ \A p \in ProductIds, q \in Quantities :
                         Refused("amend_order", amend_order(conn, o, p, q, h))
                   /\ \A d \in BOOLEAN :
                         Refused("get_order_details", get_order_details(conn, o, d, h))

C10_Witness ==
    /\ response.op = "cancel_order"
    /\ response.err = ErrInvalidOrder
    /\ OrderExists(committed, response.order_id)
    /\ OrderById(committed, response.order_id).status = "pending"
    /\ Len(committed.accounts) = 2

\* the orders whose account_id is the id of the account with the caller's email
OrdersOfCaller(db, h) ==
    {ord \in Rows(db.orders) :
        \E a \in Rows(db.accounts) : a.email = EmailOf(h) /\ a.id = ord.account_id}

(* C11: list_my_orders by a caller with an account returns exactly the orders
   of that account, each once, and none of another account; by a caller whose
   email has no account it fails with "account not registered"; it writes
   nothing. *)
C11_ListOrders ==
    Idle =>
        \A h \in Headers :
            HasEmail(h)
            => LET result == list_my_orders(conn, h)
               IN  /\ Untouched(conn, result)
                   /\ IF Registered(conn, h)
                      THEN /\ result.response.err = OK
                           /\ Rows(result.response.orders) = OrdersOfCaller(conn, h)
                           /\ Len(result.response.orders)
                                 = Cardinality(OrdersOfCaller(conn, h))
                      ELSE /\ result.response.err = ErrNotRegistered
                           /\ result.response.orders = <<>>

\* a caller listed their own order while another account's order was in the table
C11_Witness ==
    /\ response.op = "list_my_orders"
    /\ response.err = OK
    /\ response.orders # <<>>
    /\ \E ord \in Rows(conn.orders) : ord \notin Rows(response.orders)

\* no two rows of accounts hold the same email
EmailsUnique(db) ==
    \A i, j \in DOMAIN db.accounts :
        db.accounts[i].email = db.accounts[j].email => i = j

(* C12: account emails are unique in every state; create_account with an
   email that already has an account fails with "account with that email
   already exists" and leaves the accounts table as it was; create_account
   with a missing or empty name or email fails with "user-info header must
   include name and email"; and no step changes or removes an existing
   account row. *)
C12_AccountsUniqueImmutable ==
    /\ [](/\ EmailsUnique(conn)
          /\ EmailsUnique(committed)
          /\ Idle =>
                \A h \in Headers :
                    LET user_info == get_user_info(h)
                        result == create_account(conn, h)
                    IN  /\ (Falsy(user_info, "name") \/ Falsy(user_info, "email"))
                           => /\ result.response.err = ErrMissingNameEmail
                              /\ Untouched(conn, result)
                        /\ (~Falsy(user_info, "name") /\ Registered(conn, h))
                           => /\ result.response.err = ErrDuplicateAccount
                              /\ result.db.accounts = conn.accounts
                              /\ ~result.commit)
    /\ [][/\ \A i \in DOMAIN conn.accounts :
                i \in DOMAIN conn'.accounts /\ conn'.accounts[i] = conn.accounts[i]
          /\ \A i \in DOMAIN committed.accounts :
                /\ i \in DOMAIN committed'.accounts
                /\ committed'.accounts[i] = committed.accounts[i]]_vars

\* with two accounts in the table, one of their owners asked for an account again
C12_Witness ==
    /\ response.op = "create_account"
    /\ response.err = ErrDuplicateAccount
    /\ Len(committed.accounts) = 2
    /\ EmailsUnique(committed)

\* price is a positive number of whole cents (units of 0.01)
ValidPrice(price) == price > 0 /\ price % (PriceScale \div 100) = 0

ValidCatalog(db) ==
    \A p \in Rows(db.products) : ValidPrice(p.price) /\ p.available >= 0

(* C13: every product always has a positive price with at most two decimal
   digits and a non-negative available quantity; update_product_price refuses
   a price that is not positive or has more than two decimal digits and
   takes 9.99, update_product_quantity refuses a negative quantity, and a
   refused call leaves the tables as they were. *)
C13_CatalogValid ==
    /\ ValidCatalog(conn)
    /\ ValidCatalog(committed)
    /\ Idle =>
          \A id \in ProductIds :
              /\ \A price \in CatalogPrices :
                    LET result == update_product_price(conn, id, price)
                    IN  IF ValidPrice(price)
                        THEN ProductsById(conn, id) # <<>>
                             => /\ result.response.err = OK
                                /\ result.response.product[1].price = price
                        ELSE /\ result.response.err \in {ErrPricePositive, ErrPriceDecimals}
                             /\ Untouched(conn, result)
              /\ \A quantity \in CatalogAvailabilities :
                    quantity < 0
                    => LET result == update_product_quantity(conn, id, quantity)
                       IN  /\ result.response.err = ErrQuantity
                           /\ Untouched(conn, result)

(* C14: retrieve_product_details returns the product row when a product with
   the id exists, and otherwise fails with the "not found" error that
   update_product_price and update_product_quantity raise for an unknown id,
   never with another failure. *)
C14_GetProductOrNotFound ==
    Idle =>
        \A id \in ProductIds :
            LET result == retrieve_product_details(conn, id)
            IN  /\ result.db = conn
                /\ IF ProductsById(conn, id) # <<>>
                   THEN /\ result.response.err = OK
                        /\ result.response.product = ProductsById(conn, id)
                   ELSE result.response.err = ErrProductNotFound

\* db2 differs from db at most in column col of the product with the given id
OnlyProductColumn(db, db2, id, col) ==
    /\ db2.accounts = db.accounts
    /\ db2.orders = db.orders
    /\ db2.order_items = db.order_items
    /\ DOMAIN db2.products = DOMAIN db.products
    /\ \A i \in DOMAIN db.products :
          IF db.products[i].id = id
          THEN \A f \in {"id", "price", "available"} \ {col} :
                   db2.products[i][f] = db.products[i][f]
          ELSE db2.products[i] = db.products[i]

(* C15: update_product_price and update_product_quantity, whether they succeed
   or fail, change at most the price (the available quantity) of the product
   they name: every order's total_amount, status and items, every account and
   every other product stay as they were. *)
C15_CatalogWritesOnlyProduct ==
    Idle =>
        \A id \in ProductIds :
            /\ \A price \in Prices :
                  OnlyProductColumn(conn, update_product_price(conn, id, price).db,
                                    id, "price")
            /\ \A quantity \in Availabilities :
                  OnlyProductColumn(conn, update_product_quantity(conn, id, quantity).db,
                                    id, "available")

\* the price of product 2 was raised while an order listing it kept the total
\* it was created with
C15_Witness ==
    /\ response.op = "update_product_price"
    /\ response.err = OK
    /\ response.product[1].id = 2
    /\ \E ord \in Rows(committed.orders) :
          /\ \E oi \in Rows(LineItems(committed, ord.id)) : oi.product_id = 2
          /\ ord.total_amount = 15 * PriceScale
          /\ ~TotalMatches(committed, ord.id)

\* what each tool, run alone from its first line to its return on tables db,
\* leaves committed, for every input
SerialCommits(db) ==
    LET Results ==
            {create_account(db, h) : h \in Headers}
            \cup {create_order(db, ids, h) : ids \in ProductIdLists, h \in Headers}
            \cup {submit_order(db, o, h) : o \in OrderIds, h \in Headers}
            \cup {cancel_order(db, o, h) : o \in OrderIds, h \in Headers}
            \cup {amend_order(db, o, p, q, h) :
                      o \in OrderIds, p \in ProductIds, q \in Quantities, h \in Headers}
            \cup {update_product_quantity(db, id, q) :
                      id \in ProductIds, q \in Availabilities}
            \cup {update_product_price(db, id, p) : id \in ProductIds, p \in Prices}
            \cup {retrieve_product_details(db, id) : id \in ProductIds}
    IN  {result.db : result \in {r \in Results : r.commit}}

(* C16: calls of concurrent callers do not interleave inside a transaction:
   every commit publishes exactly what one tool, run alone from its first
   line to its return on the committed tables, would commit, never a write
   of another call, so the committed tables are always those of the calls
   run one after another in some order. *)
C16_CallsSerialize ==
    [][committed' # committed => committed' \in SerialCommits(committed)]_vars

\* two callers' orders were committed one after the other on the shared connection
C16_Witness ==
    /\ response.op = "create_order"
    /\ response.err = OK
    /\ suspended = <<>>
    /\ conn = committed
    /\ Len(committed.orders) = 2
    /\ committed.orders[1].account_id # committed.orders[2].account_id

\* no two rows of order_items share (order_id, product_id), and every quantity is positive
ItemsWellFormed(db) ==
    /\ \A i, j \in DOMAIN db.order_items :
          (/\ db.order_items[i].order_id = db.order_items[j].order_id
           /\ db.order_items[i].product_id = db.order_items[j].product_id)
          => i = j
    /\ \A oi \in Rows(db.order_items) : oi.quantity \in Nat \ {0}

(* C17: in every state there is at most one order_items row for each pair
   (order_id, product_id), and every order item's quantity is a positive
   integer. *)
C17_OneRowPerProduct == ItemsWellFormed(conn) /\ ItemsWellFormed(committed)

\* an order listing two products was just created with its two item rows
C17_Witness ==
    /\ response.op = "create_order"
    /\ response.err = OK
    /\ Len(LineItems(committed, response.order[1].id)) = 2

(* C18: submit_order (cancel_order) by the owner of an order, called a second
   time for the same order, succeeds again and leaves the tables exactly as
   the first call left them, whatever the order's status was. *)
C18_FinalizeIdempotent ==
    Idle =>
        \A h \in Headers, o \in OrderIds :
            Owns(conn, h, o)
            => /\ LET first == submit_order(conn, o, h)
                      second == submit_order(first.db, o, h)
                  IN  /\ first.response.err = OK /\ first.commit
                      /\ second.response.err = OK /\ second.commit
                      /\ second.db = first.db
               /\ LET first == cancel_order(conn, o, h)
                      second == cancel_order(first.db, o, h)
                  IN  /\ first.response.err = OK /\ first.commit
                      /\ second.response.err = OK /\ second.commit
                      /\ second.db = first.db

\* the owner's cancel_order succeeded on an order and left it canceled, the
\* state a repeated cancel_order both starts from and ends in
C18_Witness ==
    /\ response.op = "cancel_order"
    /\ response.err = OK
    /\ conn = committed
    /\ OrderById(committed, response.order_id).status = "canceled"
    /\ cancel_order(conn, response.order_id, NoHeader).db = conn
    /\ cancel_order(conn, response.order_id, NoHeader).commit

\* every reference of a row names a row that exists, and every status is one of the three
Referential(db) ==
    /\ \A ord \in Rows(db.orders) :
          /\ \E a \in Rows(db.accounts) : a.id = ord.account_id
          /\ ord.status \in {"pending", "submitted", "canceled"}
    /\ \A oi \in Rows(db.order_items) :
          /\ \E ord \in Rows(db.orders) : ord.id = oi.order_id
          /\ \E p \in Rows(db.products) : p.id = oi.product_id

(* C19: in every state every order's account_id names an existing account,
   every order item's order_id names an existing order and its product_id an
   existing product, and every order's status is pending, submitted or
   canceled; and the order a successful create_order stores and returns is
   pending. *)
C19_ReferentialIntegrity ==
    /\ Referential(conn)
    /\ Referential(committed)
    /\ Idle =>
          \A h \in Headers, ids \in ProductIdLists :
              LET result == create_order(conn, ids, h)
              IN  result.response.err = OK /\ result.commit
                  => /\ Referential(result.db)
                     /\ result.response.order[1].status = "pending"
                     /\ OrderById(result.db, result.response.order[1].id).status = "pending"
                     /\ \E a \in Rows(conn.accounts) :
                           /\ a.email = EmailOf(h)
                           /\ a.id = result.response.order[1].account_id

\* the second account's owner just created an order of two items while the
\* first order was already finalized
C19_Witness ==
    /\ response.op = "create_order"
    /\ response.err = OK
    /\ response.order[1].account_id = 2
    /\ response.order[1].status = "pending"
    /\ Len(LineItems(committed, response.order[1].id)) = 2
    /\ \E ord \in Rows(committed.orders) : ord.status # "pending"

(* C20: a successful submit_order (cancel_order) by the owner of an order sets
   the status of that order to submitted (canceled) and changes nothing else:
   not the order's total_amount or account_id, no other order, no order
   item, no account and no product. *)
C20_FinalizeOnlyStatus ==
    Idle =>
        \A h \in Headers, o \in OrderIds :
            Owns(conn, h, o)
            => /\ submit_order(conn, o, h).db =
                     [conn EXCEPT !.orders =
                         [i \in DOMAIN @ |-> IF @[i].id = o
                                             THEN [@[i] EXCEPT !.status = "submitted"]
                                             ELSE @[i]]]
               /\ cancel_order(conn, o, h).db =
                     [conn EXCEPT !.orders =
                         [i \in DOMAIN @ |-> IF @[i].id = o
                                             THEN [@[i] EXCEPT !.status = "canceled"]
                                             ELSE @[i]]]
               /\ submit_order(conn, o, h).response.err = OK
               /\ cancel_order(conn, o, h).response.err = OK

\* the owner of two orders submitted one of them and the other is still pending
C20_Witness ==
    /\ response.op = "submit_order"
    /\ response.err = OK
    /\ Len(committed.orders) = 2
    /\ committed.orders[1].account_id = committed.orders[2].account_id
    /\ OrderById(committed, response.order_id).status = "submitted"
    /\ \E ord \in Rows(committed.orders) :
          ord.id # response.order_id /\ ord.status = "pending"

====
